---- MODULE Spec2Model ----
(***************************************************************************)
(* A model of sphinxcontrib/drawio.py: the cached export of draw.io        *)
(* diagrams (drawio_export), the argument vector of the renderer, and the  *)
(* lifecycle of the Xvfb virtual display (on_config_inited and             *)
(* on_build_finished).                                                     *)
(*                                                                         *)
(* Strings are TLA+ strings, joined with \o.  A path is a sequence of      *)
(* names and a name is a sequence of dot-separated parts, so that          *)
(* pathlib's stem, with_suffix and relative_to are computed and not        *)
(* assumed.  An absolute path starts with the root name <<"">>.            *)
(***************************************************************************)
EXTENDS Integers, Sequences, FiniteSets, TLC

(***************************************************************************)
(* Bounds of the model.                                                    *)
(***************************************************************************)
MaxPage == 1
MaxDim == 1
MaxCalls == 3
MaxTime == 2

(***************************************************************************)
(* Program constants.                                                      *)
(***************************************************************************)
VALID_OUTPUT_FORMATS == <<"png", "jpg", "svg", "pdf">>
X_DISPLAY_NUMBER == 1
FALLBACK_EXPORT_FORMAT == "png"
\* Insertion order of the dict: export-height first, then export-width.
OPTIONAL_UNIQUES == << <<"export-height", "height">>, <<"export-width", "width">> >>

(***************************************************************************)
(* Python helpers.                                                         *)
(***************************************************************************)
RECURSIVE JoinStr(_, _)
\* sep.join(parts)
JoinStr(parts, sep) ==
    IF Len(parts) = 0 THEN ""
    ELSE IF Len(parts) = 1 THEN parts[1]
    ELSE parts[1] \o sep \o JoinStr(Tail(parts), sep)

\* dict.get(key, default); a dict is a function whose domain is its keys.
DictGet(d, key, default) == IF key \in DOMAIN d THEN d[key] ELSE default

\* str(x) of dict.get(key): "None" for a missing key, the decimal otherwise.
StrOfGet(d, key) == IF key \in DOMAIN d THEN ToString(d[key]) ELSE "None"

\* str(n / 100) for a positive int n: Python's shortest float repr, which
\* for these magnitudes is the exact decimal with one or two places.
PyStrDiv100(n) ==
    LET whole == n \div 100
        frac == n % 100
    IN  ToString(whole) \o "." \o
          (IF frac % 10 = 0 THEN ToString(frac \div 10)
           ELSE IF frac < 10 THEN "0" \o ToString(frac)
           ELSE ToString(frac))

\* The scales (in percent) float() is asked to parse back in this model.
ScaleDomain == 1..300

\* float(s) for a string produced by PyStrDiv100, in hundredths.
PyFloat100(s) == CHOOSE n \in ScaleDomain : PyStrDiv100(n) = s

(***************************************************************************)
(* pathlib.                                                                *)
(***************************************************************************)
Root == <<"">>
Name1(s) == <<s>>
NameStr(name) == JoinStr(name, ".")
\* str(Path)
PathStr(p) ==
    IF p = <<Root>> THEN "/"
    ELSE JoinStr([i \in 1..Len(p) |-> NameStr(p[i])], "/")
IsPrefixUnchecked(base, p) == TRUE
IsPrefix(base, p) ==
    /\ Len(base) <= Len(p)
    /\ \A i \in 1..Len(base) : p[i] = base[i]
\* Path.relative_to(base); the caller checks IsPrefix, else ValueError.
RelativeTo(p, base) == SubSeq(p, Len(base) + 1, Len(p))
\* Path.stem: the final name without its last suffix.
Stem(p) ==
    LET name == p[Len(p)]
    IN  IF Len(name) > 1 THEN SubSeq(name, 1, Len(name) - 1) ELSE name
\* Path(stem).with_suffix("." + ext): the last suffix of the name, when it
\* has one, is replaced.
WithSuffix(name, ext) ==
    IF Len(name) > 1 THEN Append(SubSeq(name, 1, Len(name) - 1), ext)
    ELSE Append(name, ext)

\* sha1(s.encode()).hexdigest(), kept symbolic: distinct inputs give
\* distinct digests.
Sha1Hex(s) == "sha1(" \o s \o ")"

(***************************************************************************)
(* drawio_export, lines 135-163: the options, the key, the export path.    *)
(***************************************************************************)
page_index(options) == ToString(DictGet(options, "page-index", 0))

output_format(options, default_output_format) ==
    IF "format" \in DOMAIN options THEN options["format"]
    ELSE default_output_format

scale(options, config) ==
    PyStrDiv100(DictGet(options, "export-scale",
                        config.drawio_default_export_scale))

transparent(options, config) ==
    DictGet(options, "transparency", config.drawio_default_transparency)

input_relpath(in_filename, srcdir) == RelativeTo(in_filename, srcdir)

unique_values_no_width(options, config, in_filename, srcdir) ==
    << PathStr(input_relpath(in_filename, srcdir)),
       page_index(options),
       scale(options, config),
       IF transparent(options, config) THEN "true" ELSE "false",
       StrOfGet(options, OPTIONAL_UNIQUES[1][1]) >>

unique_values_abspath(options, config, in_filename, srcdir) ==
    << PathStr(in_filename),
       page_index(options),
       scale(options, config),
       IF transparent(options, config) THEN "true" ELSE "false" >>
    \o [i \in 1..Len(OPTIONAL_UNIQUES) |->
            StrOfGet(options, OPTIONAL_UNIQUES[i][1])]

unique_values(options, config, in_filename, srcdir) ==
    << PathStr(input_relpath(in_filename, srcdir)),
       page_index(options),
       scale(options, config),
       IF transparent(options, config) THEN "true" ELSE "false" >>
    \o [i \in 1..Len(OPTIONAL_UNIQUES) |->
            StrOfGet(options, OPTIONAL_UNIQUES[i][1])]

hash_key(options, config, in_filename, srcdir) ==
    JoinStr(unique_values(options, config, in_filename, srcdir), "\n")

sha_key(options, config, in_filename, srcdir) ==
    Sha1Hex(hash_key(options, config, in_filename, srcdir))

export_dir(options, config, in_filename, srcdir) ==
    srcdir \o << Name1(".drawio"),
                 Name1(sha_key(options, config, in_filename, srcdir)) >>

filename(options, in_filename, default_output_format) ==
    WithSuffix(Stem(in_filename),
               output_format(options, default_output_format))

export_path(options, config, in_filename, srcdir, default_output_format) ==
    Append(export_dir(options, config, in_filename, srcdir),
           filename(options, in_filename, default_output_format))

(***************************************************************************)
(* drawio_export, lines 169-208: the argument vector.                      *)
(***************************************************************************)
\* config.drawio_binary_path is None (modelled "") unless set.
binary_path(config, platform_system) ==
    IF config.drawio_binary_path # "" THEN config.drawio_binary_path
    ELSE IF platform_system = "Windows"
         THEN "C:\\Program Files\\draw.io\\draw.io.exe"
         ELSE "/opt/draw.io/drawio"

scale_args_any_format(options, config, default_output_format) ==
    IF PyFloat100(scale(options, config)) = 100
    THEN <<>>
    ELSE <<"--scale", scale(options, config)>>

scale_args(options, config, default_output_format) ==
    IF /\ output_format(options, default_output_format) = "pdf"
       /\ PyFloat100(scale(options, config)) = 100
    THEN <<>>
    ELSE <<"--scale", scale(options, config)>>

RECURSIVE OptionalArgs(_, _)
\* The loop over OPTIONAL_UNIQUES.items(), from entry i on.
OptionalArgs(options, i) ==
    IF i > Len(OPTIONAL_UNIQUES) THEN <<>>
    ELSE (IF OPTIONAL_UNIQUES[i][1] \in DOMAIN options
          THEN << "--" \o OPTIONAL_UNIQUES[i][2],
                  ToString(options[OPTIONAL_UNIQUES[i][1]]) >>
          ELSE <<>>)
         \o OptionalArgs(options, i + 1)

extra_args_transparent_first(options, config) ==
    (IF transparent(options, config) THEN <<"--transparent">> ELSE <<>>)
    \o OptionalArgs(options, 1)

extra_args(options, config) ==
    OptionalArgs(options, 1)
    \o (IF transparent(options, config) THEN <<"--transparent">> ELSE <<>>)

drawio_args(options, config, in_filename, srcdir, default_output_format, platform_system) ==
    << binary_path(config, platform_system),
       "--export",
       "--crop",
       "--page-index",
       page_index(options) >>
    \o scale_args(options, config, default_output_format)
    \o extra_args(options, config)
    \o << "--format",
          output_format(options, default_output_format),
          "--output",
          PathStr(export_path(options, config, in_filename, srcdir,
                              default_output_format)),
          PathStr(in_filename) >>
    \o (IF config.drawio_no_sandbox THEN <<"--no-sandbox">> ELSE <<>>)

(***************************************************************************)
(* State.                                                                  *)
(*   call      the arguments of one drawio_export call: builder (srcdir    *)
(*             and config), options, in_filename, default_output_format    *)
(*   platform  platform.system()                                           *)
(*   cwd       the working directory of the process                        *)
(*   computed  what the call has computed: its stage, hash_key,            *)
(*             export_path and drawio_args                                 *)
(*   now       the clock that stamps modification times                    *)
(*   src       the source file: its st_mtime                               *)
(*   dirs      the cache directories that exist                            *)
(*   files     the artifact files that exist: path -> mtime, the worker    *)
(*             whose renderer wrote it, whether that write is complete     *)
(*   pc        where each worker is in drawio_export                       *)
(*   opts      the options of each worker's current call                   *)
(*   path      its export_path, as a string                                *)
(*   child     the renderer process of the call (subprocess.run)           *)
(*   rc        the exit status subprocess.run got (-1: none)               *)
(*   outcome   what the call returned or raised                            *)
(*   begun     the source's st_mtime when the call began, and whether the  *)
(*             source was then older than the clock (settled)              *)
(*   prev      the source's st_mtime when the worker's previous call       *)
(*             began, if that call had the same options, began with a      *)
(*             settled source and returned a path (-1 otherwise)           *)
(*   started   the number of calls begun                                   *)
(*   lastWrite per path, the worker whose renderer completed a write last  *)
(*   new_env   per worker, the environment its last subprocess.run was     *)
(*             given (<<>> before the first)                               *)
(*   environ   os.environ: the value of DISPLAY ("" when unset)            *)
(*   build     where the build run is: in on_config_inited, building, in   *)
(*             on_build_finished, finished, or aborted at initialization   *)
(*   exception       the exception handed to on_build_finished ("None" if none)  *)
(*   xvfb      the Xvfb process: none, live, zombie (exited, not waited    *)
(*             for) or reaped                                              *)
(*   xvfb_pid  whether config.xvfb_pid has been assigned                   *)
(*   raised    the error a hook raised ("" if none)                        *)
(*   popens, kills, waits   how often Xvfb was started, sent SIGTERM by    *)
(*             on_build_finished, and waited for by on_build_finished      *)
(***************************************************************************)
VARIABLES call, platform, cwd, computed,
          now, src, dirs, files, pc, opts, path, child, rc, outcome,
          begun, prev, started, lastWrite, new_env,
          environ, build, exception, xvfb, xvfb_pid, raised, popens, kills, waits

pureVars == <<call, platform, cwd, computed>>
exportVars == <<now, src, dirs, files, pc, opts, path, child, rc, outcome,
                begun, prev, started, lastWrite, new_env>>
displayVars == <<environ, build, exception, xvfb, xvfb_pid, raised, popens, kills,
                 waits>>
vars == <<pureVars, exportVars, displayVars>>

(***************************************************************************)
(* Inputs.                                                                 *)
(***************************************************************************)
\* The dicts with key k bound to a value of V, or without k.
Maybe(k, V) == {<<>>} \cup {k :> v : v \in V}

SrcRoots == { <<Root, Name1("tmp"), Name1("build1")>>,
              <<Root, Name1("home"), Name1("docs")>> }
WorkDirs == { <<Root>>, <<Root, Name1("tmp"), Name1("build1")>> }
\* Source files below the source root; names may hold the newline that
\* delimits the key's fields, and digits.
SourceFiles == { <<"a", "drawio">>, <<"a\n0", "drawio">> }
SourceDirs == { <<"d\n1">> }
RelPaths == { <<f>> : f \in SourceFiles }
            \cup { <<d, f>> : d \in SourceDirs, f \in SourceFiles }
ExportScales == {50}

\* setup(): the registered defaults of the configuration values.
DefaultConfig ==
    [ drawio_default_export_scale |-> 100,
      drawio_default_transparency |-> FALSE,
      drawio_binary_path |-> "",
      drawio_headless |-> "auto",
      drawio_no_sandbox |-> FALSE ]

KeyOptions ==
    { p @@ s @@ t @@ w @@ h :
        p \in Maybe("page-index", 0..MaxPage),
        s \in Maybe("export-scale", ExportScales),
        t \in Maybe("transparency", BOOLEAN),
        w \in Maybe("export-width", 1..MaxDim),
        h \in Maybe("export-height", 1..MaxDim) }

KeyConfigs ==
    { [DefaultConfig EXCEPT !.drawio_default_transparency = t] :
        t \in BOOLEAN }

KeyCalls ==
    { [ builder |-> [srcdir |-> root, config |-> cfg],
        options |-> o,
        in_filename |-> root \o rel,
        default_output_format |-> "svg" ] :
        root \in SrcRoots, rel \in RelPaths, o \in KeyOptions,
        cfg \in KeyConfigs }

NotComputed ==
    [stage |-> "called", hash_key |-> "", export_path |-> "",
     drawio_args |-> <<>>]

(***************************************************************************)
(* The workers that call drawio_export, and the file system before the     *)
(* first call: the source was written before the build began, and there    *)
(* is no cache yet.                                                        *)
(***************************************************************************)
Procs == {"w1", "w2"}

NoOutcome == [kind |-> "none", path |-> "", msg |-> <<>>]

ExportIdle ==
    /\ now = 1
    /\ src = [mtime |-> 0, exists |-> TRUE]
    /\ dirs = {}
    /\ files = <<>>
    /\ pc = [p \in Procs |-> "idle"]
    /\ opts = [p \in Procs |-> <<>>]
    /\ path = [p \in Procs |-> ""]
    /\ child = [p \in Procs |-> "none"]
    /\ rc = [p \in Procs |-> -1]
    /\ outcome = [p \in Procs |-> NoOutcome]
    /\ begun = [p \in Procs |-> [src |-> -1, settled |-> FALSE]]
    /\ prev = [p \in Procs |-> -1]
    /\ started = 0
    /\ lastWrite = <<>>
    /\ new_env = [p \in Procs |-> <<>>]

\* No build run is under way and no Xvfb was started.
DisplayIdle ==
    /\ environ = [DISPLAY |-> ""]
    /\ build = "new"
    /\ exception = "None"
    /\ xvfb = "none"
    /\ xvfb_pid = FALSE
    /\ raised = ""
    /\ popens = 0
    /\ kills = 0
    /\ waits = 0

(***************************************************************************)
(* The key derivation of drawio_export, lines 135-163, applied to a call.  *)
(***************************************************************************)
DeriveKey ==
    /\ computed.stage = "called"
    /\ computed' =
         IF ~IsPrefix(call.builder.srcdir, call.in_filename)
         THEN \* Path.relative_to raises ValueError
              [computed EXCEPT !.stage = "ValueError"]
         ELSE [computed EXCEPT
                 !.stage = "keyed",
                 !.hash_key = hash_key(call.options, call.builder.config,
                                       call.in_filename, call.builder.srcdir),
                 !.export_path =
                     PathStr(export_path(call.options, call.builder.config,
                                         call.in_filename, call.builder.srcdir,
                                         call.default_output_format))]
    /\ UNCHANGED <<call, platform, cwd>>
    /\ UNCHANGED <<exportVars, displayVars>>

KeyInit ==
    /\ call \in KeyCalls
    /\ platform = "Linux"
    /\ cwd \in WorkDirs
    /\ computed = NotComputed
    /\ ExportIdle
    /\ DisplayIdle

KeyNext == DeriveKey

SpecKey == KeyInit /\ [][KeyNext]_vars

\* The calls of one build (one builder) that the key claims range over.
SameBuildCalls(c) ==
    { [c EXCEPT !.options = o, !.in_filename = c.builder.srcdir \o rel] :
        o \in KeyOptions, rel \in RelPaths }

\* The same request made in a build whose source root is elsewhere.
Relocated(c, root) ==
    [c EXCEPT !.builder.srcdir = root,
              !.in_filename =
                  root \o RelativeTo(c.in_filename, c.builder.srcdir)]

\* The parameters of a call that the claims about the key speak of: the
\* effective page index, scale (percent), transparency, width and height
\* (0 for an absent dimension; a present one is positive).
KeyParams(c) ==
    << DictGet(c.options, "page-index", 0),
       DictGet(c.options, "export-scale",
               c.builder.config.drawio_default_export_scale),
       transparent(c.options, c.builder.config),
       DictGet(c.options, "export-width", 0),
       DictGet(c.options, "export-height", 0) >>

HashKeyOf(c) ==
    hash_key(c.options, c.builder.config, c.in_filename, c.builder.srcdir)

\* C6: two requests that differ in page index, scale, transparency, width
\* or height have different pre-hash key strings, whatever their relative
\* source paths (newlines in them included).
C6_Discrimination ==
    computed.stage = "keyed" =>
        \A other \in SameBuildCalls(call) :
            KeyParams(other) # KeyParams(call)
                => HashKeyOf(other) # computed.hash_key

\* C6 witness: a key was derived for a path holding a newline, and there is
\* a request for a different path that differs only in the export width.
C6_Witness ==
    /\ computed.stage = "keyed"
    /\ call.in_filename[Len(call.in_filename)] = <<"a\n0", "drawio">>
    /\ \E other \in SameBuildCalls(call) :
          /\ other.in_filename # call.in_filename
          /\ KeyParams(other)[4] # KeyParams(call)[4]
          /\ \A i \in {1, 2, 3, 5} : KeyParams(other)[i] = KeyParams(call)[i]

\* C7: requests equal in every field, for the same path relative to their
\* source roots, get the same key under every source root and every
\* working directory.
C7_Determinism ==
    computed.stage = "keyed" =>
        \A root \in SrcRoots :
            HashKeyOf(Relocated(call, root)) = computed.hash_key

\* C7 witness: a key was derived while the working directory is not the
\* source root, and the same request exists under another source root.
C7_Witness ==
    /\ computed.stage = "keyed"
    /\ cwd # call.builder.srcdir
    /\ \E root \in SrcRoots :
          /\ root # call.builder.srcdir
          /\ Relocated(call, root) \in KeyCalls
          /\ Relocated(call, root).in_filename # call.in_filename

(***************************************************************************)
(* The argument vector of drawio_export, lines 169-208, built on a miss    *)
(* for a call whose key was derived.                                       *)
(***************************************************************************)
ArgOptions ==
    { p @@ f @@ s @@ t @@ w @@ h :
        p \in Maybe("page-index", 0..MaxPage),
        f \in Maybe("format", {"png", "pdf"}),
        s \in Maybe("export-scale", {50, 100}),
        t \in Maybe("transparency", BOOLEAN),
        w \in Maybe("export-width", 1..MaxDim),
        h \in Maybe("export-height", 1..MaxDim) }

ArgConfigs ==
    { [DefaultConfig EXCEPT !.drawio_default_export_scale = sc,
                            !.drawio_default_transparency = t,
                            !.drawio_binary_path = b,
                            !.drawio_no_sandbox = ns] :
        sc \in {100, 50}, t \in BOOLEAN, b \in {"", "/usr/bin/drawio"},
        ns \in BOOLEAN }

ArgRoot == <<Root, Name1("tmp"), Name1("build1")>>

ArgCalls ==
    { [ builder |-> [srcdir |-> ArgRoot, config |-> cfg],
        options |-> o,
        in_filename |-> ArgRoot \o << <<"a", "drawio">> >>,
        default_output_format |-> d ] :
        o \in ArgOptions, cfg \in ArgConfigs, d \in {"svg", "pdf"} }

BuildArgs ==
    /\ computed.stage = "keyed"
    /\ computed' =
         [computed EXCEPT
            !.stage = "built",
            !.drawio_args =
                drawio_args(call.options, call.builder.config,
                            call.in_filename, call.builder.srcdir,
                            call.default_output_format, platform)]
    /\ UNCHANGED <<call, platform, cwd>>
    /\ UNCHANGED <<exportVars, displayVars>>

ArgsInit ==
    /\ call \in ArgCalls
    /\ platform \in {"Linux", "Windows"}
    /\ cwd = <<Root>>
    /\ computed = NotComputed
    /\ ExportIdle
    /\ DisplayIdle

ArgsNext == DeriveKey \/ BuildArgs

SpecArgs == ArgsInit /\ [][ArgsNext]_vars

\* What the claims about the argument vector speak of.
ArgFormat == output_format(call.options, call.default_output_format)
ArgScalePercent ==
    DictGet(call.options, "export-scale",
            call.builder.config.drawio_default_export_scale)
ArgScaleValue == PyStrDiv100(ArgScalePercent)
HasFlagWithValue(args, flag, value) ==
    \E i \in 1..(Len(args) - 1) : args[i] = flag /\ args[i + 1] = value
Contains(args, x) == \E i \in 1..Len(args) : args[i] = x

\* C8: the argument vector holds no --scale flag and no scale value exactly
\* when the format is pdf and the scale is 100%; in every other case it
\* holds --scale followed by the scale value.
C8_PdfScaleWorkaround ==
    computed.stage = "built" =>
        IF ArgFormat = "pdf" /\ ArgScalePercent = 100
        THEN /\ ~Contains(computed.drawio_args, "--scale")
             /\ ~Contains(computed.drawio_args, ArgScaleValue)
        ELSE HasFlagWithValue(computed.drawio_args, "--scale", ArgScaleValue)

\* C8 witness: the vector was built for pdf at 100% with the format taken
\* from the builder's default.
C8_Witness ==
    /\ computed.stage = "built"
    /\ ArgFormat = "pdf"
    /\ "format" \notin DOMAIN call.options
    /\ ArgScalePercent = 100

\* The parts of the documented template.
TemplateHead ==
    << binary_path(call.builder.config, platform),
       "--export", "--crop", "--page-index",
       ToString(DictGet(call.options, "page-index", 0)) >>
TemplateScale ==
    IF ArgFormat = "pdf" /\ ArgScalePercent = 100 THEN <<>>
    ELSE <<"--scale", ArgScaleValue>>
TemplateWidth ==
    IF "export-width" \in DOMAIN call.options
    THEN <<"--width", ToString(call.options["export-width"])>> ELSE <<>>
TemplateHeight ==
    IF "export-height" \in DOMAIN call.options
    THEN <<"--height", ToString(call.options["export-height"])>> ELSE <<>>
TemplateTransparent ==
    IF transparent(call.options, call.builder.config)
    THEN <<"--transparent">> ELSE <<>>
TemplateTail ==
    << "--format", ArgFormat, "--output", computed.export_path,
       PathStr(call.in_filename) >>
    \o (IF call.builder.config.drawio_no_sandbox
        THEN <<"--no-sandbox">> ELSE <<>>)

\* C9 as claimed: the vector is the documented template, --width before
\* --height.
C9_TemplateWidthFirst ==
    computed.stage = "built" =>
        computed.drawio_args =
            TemplateHead \o TemplateScale \o TemplateWidth \o TemplateHeight
            \o TemplateTransparent \o TemplateTail

\* C9 as amended: the vector is the template with --height before --width:
\* binary, --export, --crop, --page-index n, --scale s unless pdf at 100%,
\* --height h and --width w each iff its option is in the request,
\* --transparent iff the effective transparency is true, --format fmt,
\* --output path, the input path, and --no-sandbox last iff configured.
C9_TemplateHeightFirst ==
    computed.stage = "built" =>
        /\ computed.drawio_args =
             TemplateHead \o TemplateScale \o TemplateHeight \o TemplateWidth
             \o TemplateTransparent \o TemplateTail
        /\ call.builder.config.drawio_no_sandbox =>
             computed.drawio_args[Len(computed.drawio_args)] = "--no-sandbox"

\* C9 witness: a vector built with every optional part present.
C9_Witness ==
    /\ computed.stage = "built"
    /\ {"export-width", "export-height"} \subseteq DOMAIN call.options
    /\ transparent(call.options, call.builder.config)
    /\ call.builder.config.drawio_no_sandbox
    /\ Contains(computed.drawio_args, "--scale")

(***************************************************************************)
(* drawio_export as run by concurrent workers (the extension declares      *)
(* parallel_read_safe), against one source file and the cache on disk.     *)
(***************************************************************************)
ExportCall ==
    [ builder |-> [srcdir |-> ArgRoot, config |-> DefaultConfig],
      options |-> <<>>,
      in_filename |-> ArgRoot \o << <<"a", "drawio">> >>,
      default_output_format |-> "svg" ]

\* The options the workers call with: one key and one format.
ExportOptions == {<<>>}

ExportDirOf(o) ==
    PathStr(export_dir(o, call.builder.config, call.in_filename,
                       call.builder.srcdir))
ExportPathOf(o) ==
    PathStr(export_path(o, call.builder.config, call.in_filename,
                        call.builder.srcdir, call.default_output_format))
DrawioArgsOf(o) ==
    drawio_args(o, call.builder.config, call.in_filename,
                call.builder.srcdir, call.default_output_format, platform)

\* What the renderer process started by worker p prints, as captured by
\* the pipes.
ChildStdout(p) == "stdout of the renderer of " \o p
ChildStderr(p) == "stderr of the renderer of " \o p
LaunchError == "[Errno 2] No such file or directory"

\* The messages of the DrawIOError raised at lines 218-229, as the parts
\* that str.format puts together.
OutputMissingMsg(args, p) ==
    << "draw.io did not produce an output file:\n[stderr]\n",
       ChildStderr(p), "\n[stdout]\n", ChildStdout(p) >>

LaunchFailedMsg(args, exc) ==
    << "draw.io (", JoinStr(args, " "), ") exited with error:\n", exc >>

ExitNonZeroMsg(args, p) ==
    << "draw.io (", JoinStr(args, " "), ") exited with error:\n[stderr]\n",
       ChildStderr(p), "\n[stdout]\n", ChildStdout(p) >>

\* is_headless without the test of the platform.
is_headless_any_platform(config, platform_system, env) ==
    IF config.drawio_headless = "auto"
    THEN env.DISPLAY = ""
    ELSE config.drawio_headless = "True"

\* Lines 32-45; drawio_headless is "auto", "True" or "False".
is_headless(config, platform_system, env) ==
    IF config.drawio_headless = "auto"
    THEN IF platform_system # "Linux" THEN FALSE
         ELSE IF env.DISPLAY # "" THEN FALSE
         ELSE TRUE
    ELSE config.drawio_headless = "True"

IsHeadlessNow == is_headless(call.builder.config, platform, environ)

\* Lines 210-212: the environment given to the renderer.
NewEnv ==
    IF IsHeadlessNow
    THEN [environ EXCEPT !.DISPLAY = ":" \o ToString(X_DISPLAY_NUMBER)]
    ELSE environ

CacheHitOrEqual(f) ==
    /\ f \in DOMAIN files
    /\ files[f].mtime >= src.mtime

\* Lines 165-166: the artifact exists and is strictly newer than the source.
CacheHit(f) ==
    /\ f \in DOMAIN files
    /\ files[f].mtime > src.mtime

OutputNotChecked(f) == TRUE

\* Line 217: the check made after a zero exit.
OutputExists(f) == f \in DOMAIN files

SourceAssumed == TRUE

\* Line 86: os.path.exists(filename), the test DrawIOBase.run makes before
\* it calls drawio_export.
SourceExists == src.exists

\* Lines 83-90: the source file of the directive is missing; run returns
\* a warning node and does not call drawio_export.
RunMissing(p) ==
    /\ pc[p] \in {"idle", "returned", "raised"}
    /\ started < MaxCalls
    /\ ~SourceExists
    /\ started' = started + 1
    /\ outcome' = [outcome EXCEPT ![p] =
          [kind |-> "warning", path |-> "",
           msg |-> << "External draw.io file ", PathStr(call.in_filename),
                      " not found." >>]]
    /\ pc' = [pc EXCEPT ![p] = "returned"]
    /\ UNCHANGED <<now, src, dirs, files, opts, path, child, rc, begun,
                   prev, lastWrite, new_env>>
    /\ UNCHANGED <<pureVars, displayVars>>

\* Lines 143-144: in_filename is not below builder.srcdir and
\* Path.relative_to raises ValueError, before ensuredir.
BeginRejected(p, o) ==
    /\ pc[p] \in {"idle", "returned", "raised"}
    /\ started < MaxCalls
    /\ SourceExists
    /\ ~IsPrefix(call.builder.srcdir, call.in_filename)
    /\ started' = started + 1
    /\ opts' = [opts EXCEPT ![p] = o]
    /\ outcome' = [outcome EXCEPT ![p] =
          [kind |-> "error", path |-> "",
           msg |-> << "ValueError: ", PathStr(call.in_filename),
                      " is not in the subpath of ",
                      PathStr(call.builder.srcdir) >>]]
    /\ pc' = [pc EXCEPT ![p] = "raised"]
    /\ UNCHANGED <<now, src, dirs, files, path, child, rc, begun, prev,
                   lastWrite, new_env>>
    /\ UNCHANGED <<pureVars, displayVars>>

\* A call begins (lines 83-86 and 91-102: the source exists and run calls
\* drawio_export): lines 131-163 compute the options, the key and the
\* export path, and ensuredir creates the cache directory.
Begin(p, o) ==
    /\ pc[p] \in {"idle", "returned", "raised"}
    /\ started < MaxCalls
    /\ SourceExists
    /\ IsPrefix(call.builder.srcdir, call.in_filename)
    /\ started' = started + 1
    /\ prev' = [prev EXCEPT ![p] =
                  IF /\ outcome[p].kind \in {"hit", "rendered"}
                     /\ opts[p] = o
                     /\ begun[p].settled
                  THEN begun[p].src ELSE -1]
    /\ begun' = [begun EXCEPT ![p] =
                   [src |-> src.mtime, settled |-> src.mtime < now]]
    /\ opts' = [opts EXCEPT ![p] = o]
    /\ path' = [path EXCEPT ![p] = ExportPathOf(o)]
    /\ dirs' = dirs \cup {ExportDirOf(o)}
    /\ rc' = [rc EXCEPT ![p] = -1]
    /\ outcome' = [outcome EXCEPT ![p] = NoOutcome]
    /\ pc' = [pc EXCEPT ![p] = "check"]
    /\ UNCHANGED <<now, src, files, child, lastWrite, new_env>>
    /\ UNCHANGED <<pureVars, displayVars>>

\* CheckCache for a cache that makes a call wait while another call renders
\* to the same path.
CheckCacheLocked(p) ==
    /\ pc[p] = "check"
    /\ \A q \in Procs \ {p} :
          ~(pc[q] \in {"launch", "running"} /\ path[q] = path[p])
    /\ IF CacheHit(path[p])
       THEN /\ pc' = [pc EXCEPT ![p] = "returned"]
            /\ outcome' = [outcome EXCEPT ![p] =
                  [kind |-> "hit", path |-> path[p], msg |-> <<>>]]
       ELSE /\ pc' = [pc EXCEPT ![p] = "launch"]
            /\ UNCHANGED outcome
    /\ UNCHANGED <<now, src, dirs, files, opts, path, child, rc, begun,
                   prev, started, lastWrite,
                   new_env>>
    /\ UNCHANGED <<pureVars, displayVars>>

\* CheckCache for a cache that unlinks a stale artifact before the render.
CheckCacheEvict(p) ==
    /\ pc[p] = "check"
    /\ IF CacheHit(path[p])
       THEN /\ pc' = [pc EXCEPT ![p] = "returned"]
            /\ outcome' = [outcome EXCEPT ![p] =
                  [kind |-> "hit", path |-> path[p], msg |-> <<>>]]
            /\ UNCHANGED files
       ELSE /\ pc' = [pc EXCEPT ![p] = "launch"]
            /\ files' = [f \in DOMAIN files \ {path[p]} |-> files[f]]
            /\ UNCHANGED outcome
    /\ UNCHANGED <<now, src, dirs, opts, path, child, rc, begun,
                   prev, started, lastWrite, new_env>>
    /\ UNCHANGED <<pureVars, displayVars>>

\* Lines 165-167: a fresh artifact is returned at once.
CheckCache(p) ==
    /\ pc[p] = "check"
    /\ IF CacheHit(path[p])
       THEN /\ pc' = [pc EXCEPT ![p] = "returned"]
            /\ outcome' = [outcome EXCEPT ![p] =
                  [kind |-> "hit", path |-> path[p], msg |-> <<>>]]
       ELSE /\ pc' = [pc EXCEPT ![p] = "launch"]
            /\ UNCHANGED outcome
    /\ UNCHANGED <<now, src, dirs, files, opts, path, child, rc, begun,
                   prev, started, lastWrite,
                   new_env>>
    /\ UNCHANGED <<pureVars, displayVars>>

\* Lines 169-216 and 223-225: subprocess.run cannot start the renderer
\* (OSError).
LaunchFails(p) ==
    /\ pc[p] = "launch"
    /\ new_env' = [new_env EXCEPT ![p] = NewEnv]
    /\ outcome' = [outcome EXCEPT ![p] =
          [kind |-> "error", path |-> "",
           msg |-> LaunchFailedMsg(DrawioArgsOf(opts[p]), LaunchError)]]
    /\ pc' = [pc EXCEPT ![p] = "raised"]
    /\ UNCHANGED <<now, src, dirs, files, opts, path, child, rc, begun,
                   prev, started, lastWrite>>
    /\ UNCHANGED <<pureVars, displayVars>>

\* Lines 169-216: subprocess.run starts the renderer and waits for it.
Launch(p) ==
    /\ pc[p] = "launch"
    /\ new_env' = [new_env EXCEPT ![p] = NewEnv]
    /\ child' = [child EXCEPT ![p] = "started"]
    /\ pc' = [pc EXCEPT ![p] = "running"]
    /\ UNCHANGED <<now, src, dirs, files, opts, path, rc, outcome, begun,
                   prev, started, lastWrite>>
    /\ UNCHANGED <<pureVars, displayVars>>

\* The renderer creates or truncates the file named by --output.
ChildOpen(p) ==
    /\ pc[p] = "running"
    /\ child[p] = "started"
    /\ files' = (path[p] :> [mtime |-> now, by |-> p, complete |-> FALSE])
                @@ files
    /\ child' = [child EXCEPT ![p] = "writing"]
    /\ UNCHANGED <<now, src, dirs, pc, opts, path, rc, outcome, begun, prev,
                   started, lastWrite,
                   new_env>>
    /\ UNCHANGED <<pureVars, displayVars>>

\* The renderer writes the image and closes the file.
ChildClose(p) ==
    /\ pc[p] = "running"
    /\ child[p] = "writing"
    /\ files' = (path[p] :> [mtime |-> now, by |-> p, complete |-> TRUE])
                @@ files
    /\ lastWrite' = (path[p] :> p) @@ lastWrite
    /\ child' = [child EXCEPT ![p] = "written"]
    /\ UNCHANGED <<now, src, dirs, pc, opts, path, rc, outcome, begun, prev,
                   started,
                   new_env>>
    /\ UNCHANGED <<pureVars, displayVars>>

\* Lines 216-222 and 226-229: the renderer exits and subprocess.run
\* returns.  The renderer exits with status 0 after a complete write or
\* without having written at all, with a non-zero status at any point.
Finish(p, status) ==
    /\ pc[p] = "running"
    /\ status = 0 => child[p] \in {"started", "written"}
    /\ child' = [child EXCEPT ![p] = "none"]
    /\ rc' = [rc EXCEPT ![p] = status]
    /\ IF status # 0
       THEN \* check=True: CalledProcessError
            /\ outcome' = [outcome EXCEPT ![p] =
                  [kind |-> "error", path |-> "",
                   msg |-> ExitNonZeroMsg(DrawioArgsOf(opts[p]), p)]]
            /\ pc' = [pc EXCEPT ![p] = "raised"]
       ELSE IF ~OutputExists(path[p])
       THEN /\ outcome' = [outcome EXCEPT ![p] =
                  [kind |-> "error", path |-> "",
                   msg |-> OutputMissingMsg(DrawioArgsOf(opts[p]), p)]]
            /\ pc' = [pc EXCEPT ![p] = "raised"]
       ELSE /\ outcome' = [outcome EXCEPT ![p] =
                  [kind |-> "rendered", path |-> path[p], msg |-> <<>>]]
            /\ pc' = [pc EXCEPT ![p] = "returned"]
    /\ UNCHANGED <<now, src, dirs, files, opts, path, begun, prev, started,
                   lastWrite,
                   new_env>>
    /\ UNCHANGED <<pureVars, displayVars>>

\* Time passes.
Tick ==
    /\ now < MaxTime
    /\ now' = now + 1
    /\ UNCHANGED <<src, dirs, files, pc, opts, path, child, rc, outcome,
                   begun, prev, started, lastWrite,
                   new_env>>
    /\ UNCHANGED <<pureVars, displayVars>>

\* The author saves the source file (a save within the tick of the last
\* one leaves the st_mtime as it is).
TouchSource ==
    /\ src.exists
    /\ src.mtime < now
    /\ src' = [src EXCEPT !.mtime = now]
    /\ UNCHANGED <<now, dirs, files, pc, opts, path, child, rc, outcome,
                   begun, prev, started, lastWrite,
                   new_env>>
    /\ UNCHANGED <<pureVars, displayVars>>

\* The author adds the source file that a directive names.
WriteSource ==
    /\ ~src.exists
    /\ src' = [mtime |-> now, exists |-> TRUE]
    /\ UNCHANGED <<now, dirs, files, pc, opts, path, child, rc, outcome,
                   begun, prev, started, lastWrite, new_env>>
    /\ UNCHANGED <<pureVars, displayVars>>

Init ==
    /\ call = ExportCall
    /\ platform = "Linux"
    /\ cwd = <<Root>>
    /\ computed = NotComputed
    /\ ExportIdle
    /\ DisplayIdle

Next ==
    \/ \E p \in Procs, o \in ExportOptions : Begin(p, o)
    \/ \E p \in Procs : CheckCache(p)
    \/ \E p \in Procs : LaunchFails(p)
    \/ \E p \in Procs : Launch(p)
    \/ \E p \in Procs : ChildOpen(p)
    \/ \E p \in Procs : ChildClose(p)
    \/ \E p \in Procs, status \in {0, 1} : Finish(p, status)
    \/ Tick
    \/ TouchSource

Spec == Init /\ [][Next]_vars

(***************************************************************************)
(* One worker's directives through DrawIOBase.run: the source file may be  *)
(* missing or lie outside the source root, and the directives may ask for  *)
(* different formats.                                                      *)
(***************************************************************************)
RunOptions == { <<>>, "format" :> "png" }

\* relfn2path gives absolute, normalised paths; a directive may name a
\* file outside the source root.
RunFilenames ==
    { ArgRoot \o << <<"a", "drawio">> >>,
      <<Root, Name1("tmp"), Name1("build1x"), <<"a", "drawio">> >>,
      <<Root, <<"a", "drawio">> >> }

RunInit ==
    /\ \E f \in RunFilenames : call = [ExportCall EXCEPT !.in_filename = f]
    /\ platform = "Linux"
    /\ cwd = <<Root>>
    /\ computed = NotComputed
    /\ now = 1
    /\ \E e \in BOOLEAN : src = [mtime |-> 0, exists |-> e]
    /\ dirs = {}
    /\ files = <<>>
    /\ pc = [p \in Procs |-> "idle"]
    /\ opts = [p \in Procs |-> <<>>]
    /\ path = [p \in Procs |-> ""]
    /\ child = [p \in Procs |-> "none"]
    /\ rc = [p \in Procs |-> -1]
    /\ outcome = [p \in Procs |-> NoOutcome]
    /\ begun = [p \in Procs |-> [src |-> -1, settled |-> FALSE]]
    /\ prev = [p \in Procs |-> -1]
    /\ started = 0
    /\ lastWrite = <<>>
    /\ new_env = [p \in Procs |-> <<>>]
    /\ DisplayIdle

RunNext ==
    \/ RunMissing("w1")
    \/ \E o \in RunOptions : BeginRejected("w1", o)
    \/ \E o \in RunOptions : Begin("w1", o)
    \/ CheckCache("w1")
    \/ LaunchFails("w1")
    \/ Launch("w1")
    \/ ChildOpen("w1")
    \/ ChildClose("w1")
    \/ \E status \in {0, 1} : Finish("w1", status)
    \/ Tick
    \/ TouchSource
    \/ WriteSource

SpecRun == RunInit /\ [][RunNext]_vars

\* The cache directories, the artifact files and the renderer processes.
SideEffects == <<dirs, files, child, new_env>>

\* C15: a directive whose source file does not exist gets a warning from
\* DrawIOBase.run and nothing else: no cache directory, no file, no
\* renderer process, no error raised.
C15_InputNotFound ==
    [][(~src.exists /\ started' # started) =>
          /\ outcome'["w1"].kind = "warning"
          /\ pc'["w1"] = "returned"
          /\ UNCHANGED SideEffects]_vars

\* C15 witness: the source is missing, a directive was processed with a
\* warning, and there is no cache directory.
C15_Witness ==
    /\ ~src.exists
    /\ pc["w1"] = "returned"
    /\ outcome["w1"].kind = "warning"
    /\ dirs = {}

\* The file f is not the root or one of its descendants.
LiesOutside(f, root) ==
    \/ Len(f) < Len(root)
    \/ SubSeq(f, 1, Len(root)) # root

\* C16: a call whose source path is not below the source root is rejected
\* with an error before any side effect: no cache directory, no file, no
\* renderer process.
C16_OutsideRootRejected ==
    [][(/\ src.exists
        /\ LiesOutside(call.in_filename, call.builder.srcdir)
        /\ started' # started) =>
          /\ outcome'["w1"].kind = "error"
          /\ pc'["w1"] = "raised"
          /\ UNCHANGED SideEffects]_vars

\* C16 witness: a call for a file in a sibling of the source root, whose
\* name begins with the root's, was rejected and no directory exists.
C16_Witness ==
    /\ Len(call.in_filename) = 4
    /\ call.in_filename[3] = Name1("build1x")
    /\ pc["w1"] = "raised"
    /\ outcome["w1"].kind = "error"
    /\ dirs = {}
    /\ child["w1"] = "none"

\* The artifact files that lie in the cache directory d.
FilesIn(d) ==
    { f \in DOMAIN files :
        \E o \in RunOptions : ExportDirOf(o) = d /\ ExportPathOf(o) = f }

\* C17 as claimed: whenever no call is under way, every cache directory
\* that exists holds exactly one artifact file, also after failed renders
\* and after requests that differ only in the output format.
C17_OneArtifactPerDirectory ==
    (\A p \in Procs : pc[p] \in {"idle", "returned", "raised"}) =>
        \A d \in dirs : Cardinality(FilesIn(d)) = 1

(***************************************************************************)
(* Claims about the cache and the render.                                  *)
(***************************************************************************)
Fresh(f) == f \in DOMAIN files /\ files[f].mtime > src.mtime

\* C1: the check of the cache is a hit exactly when the artifact exists
\* with an mtime strictly greater than the source's; a hit returns the
\* artifact path and starts no renderer, and every other call goes on to
\* subprocess.run.
C1_HitIffFresh ==
    [][\A p \in Procs :
         /\ (pc[p] = "check" /\ pc'[p] # "check") =>
               IF Fresh(path[p])
               THEN /\ pc'[p] = "returned"
                    /\ outcome'[p].kind = "hit"
                    /\ outcome'[p].path = path[p]
                    /\ child'[p] = "none"
                    /\ rc'[p] = -1
               ELSE pc'[p] = "launch"
         /\ (pc[p] = "launch" /\ pc'[p] # "launch") =>
               pc'[p] \in {"running", "raised"}
         /\ pc'[p] = "running" => outcome'[p].kind # "hit"]_vars

\* C1 witness: one call has returned a hit, and another has gone on to the
\* renderer although the artifact exists, its mtime being equal to the
\* source's.
C1_Witness ==
    \E p, q \in Procs :
        /\ outcome[p].kind = "hit"
        /\ pc[q] = "launch"
        /\ path[q] \in DOMAIN files
        /\ files[path[q]].mtime = src.mtime

\* C2 as claimed: a worker alone runs drawio_export twice with the same
\* options; the source was written before the first run began and is not
\* written again; the first run returned a path.  Then the second run is a
\* hit: it starts no renderer and returns the same path.
C2_Idempotence ==
    \A p \in Procs :
        ( /\ \A q \in Procs \ {p} : pc[q] = "idle"
          /\ prev[p] # -1
          /\ prev[p] = src.mtime
          /\ pc[p] # "check" )
        => /\ pc[p] = "returned"
           /\ outcome[p].kind = "hit"
           /\ outcome[p].path = path[p]

\* The message of a DrawIOError names the missing output file and carries
\* the captured stdout and stderr of worker p's renderer.
IsOutputMissing(msg, p) ==
    /\ Len(msg) > 0
    /\ msg[1] = "draw.io did not produce an output file:\n[stderr]\n"
    /\ Contains(msg, ChildStdout(p))
    /\ Contains(msg, ChildStderr(p))
    /\ msg # ExitNonZeroMsg(DrawioArgsOf(opts[p]), p)
    /\ msg # LaunchFailedMsg(DrawioArgsOf(opts[p]), LaunchError)
    /\ ~Contains(msg, ") exited with error:\n[stderr]\n")
    /\ ~Contains(msg, ") exited with error:\n")

\* C3: a render returns a path only after a zero exit with the target file
\* in place; a zero exit with the target file absent raises the
\* output-missing error, which differs from the errors of a non-zero exit
\* and of a failed launch and carries the captured stdout and stderr.
C3_OutputMissing ==
    [][\A p \in Procs :
         (pc[p] = "running" /\ pc'[p] # "running") =>
            /\ pc'[p] = "returned" =>
                  /\ rc'[p] = 0
                  /\ path[p] \in DOMAIN files'
                  /\ outcome'[p] =
                        [kind |-> "rendered", path |-> path[p], msg |-> <<>>]
            /\ (rc'[p] = 0 /\ path[p] \notin DOMAIN files) =>
                  /\ pc'[p] = "raised"
                  /\ outcome'[p].kind = "error"
                  /\ IsOutputMissing(outcome'[p].msg, p)
            /\ rc'[p] # 0 =>
                  /\ pc'[p] = "raised"
                  /\ ~IsOutputMissing(outcome'[p].msg, p)]_vars

\* C3 witness: a renderer has exited with status 0 leaving no file, and the
\* call has raised.
C3_Witness ==
    \E p \in Procs :
        /\ pc[p] = "raised"
        /\ rc[p] = 0
        /\ path[p] \notin DOMAIN files

\* Every worker has made one call, and every call rendered and returned.
FirstRoundRendered ==
    /\ started = Cardinality(Procs)
    /\ \A p \in Procs : pc[p] = "returned" /\ outcome[p].kind = "rendered"

\* C5: calls with the same key and format never wait for one another; a
\* call that misses goes on to run the renderer itself; every write goes to
\* the export path of a call whose renderer is running, the same path for
\* the same options; and once the calls of the first round have all
\* rendered and returned, the file on disk is the complete output of the
\* renderer that wrote last.
C5_AtLeastOnce ==
    /\ [](\A p \in Procs :
            /\ pc[p] = "check" => ENABLED CheckCache(p)
            /\ pc[p] = "launch" => ENABLED Launch(p)
            /\ outcome[p].kind = "rendered" => rc[p] = 0
            /\ \A q \in Procs :
                  (pc[p] # "idle" /\ pc[q] # "idle" /\ opts[p] = opts[q])
                      => path[p] = path[q])
    /\ [](FirstRoundRendered =>
            \A p \in Procs :
                /\ path[p] \in DOMAIN files
                /\ path[p] \in DOMAIN lastWrite
                /\ files[path[p]].complete
                /\ files[path[p]].by = lastWrite[path[p]])
    /\ [][\A p \in Procs :
            /\ (pc[p] = "check" /\ pc'[p] # "check" /\ ~Fresh(path[p]))
                  => pc'[p] = "launch"
            /\ (pc[p] = "launch" /\ pc'[p] # "launch")
                  => pc'[p] \in {"running", "raised"}]_vars
    /\ [][\A f \in DOMAIN files' :
            (f \notin DOMAIN files \/ files'[f] # files[f])
                => \E p \in Procs : pc[p] = "running" /\ path[p] = f]_vars

\* C5 witness: the calls of the first round all missed and rendered, their
\* renderers having run at the same time, and a renderer other than the
\* one that opened the file first wrote it last.
C5_Witness ==
    /\ FirstRoundRendered
    /\ \A p \in Procs : begun[p].src = 0 /\ src.mtime = 0
    /\ \E p, q \in Procs :
          /\ p # q
          /\ path[p] = path[q]
          /\ files[path[p]].by = q
          /\ lastWrite[path[p]] = q

\* C10 as claimed: every error raised for a render carries the full command
\* line and, when a renderer process ran, its captured stdout and stderr.
C10_ErrorsCarryCommandAndOutput ==
    \A p \in Procs :
        outcome[p].kind = "error" =>
            /\ Contains(outcome[p].msg, JoinStr(DrawioArgsOf(opts[p]), " "))
            /\ rc[p] # -1 =>
                  /\ Contains(outcome[p].msg, ChildStdout(p))
                  /\ Contains(outcome[p].msg, ChildStderr(p))

(***************************************************************************)
(* The virtual display: is_headless, on_config_inited and                  *)
(* on_build_finished, in one build run.  The configuration value           *)
(* drawio_headless is "auto", "True" or "False".                           *)
(***************************************************************************)
\* Lines 232-233 and 242-243: on_config_inited decides.
ConfigInited ==
    /\ build = "new"
    /\ build' = IF IsHeadlessNow THEN "popen" ELSE "building"
    /\ UNCHANGED <<environ, exception, xvfb, xvfb_pid, raised, popens, kills,
                   waits>>
    /\ UNCHANGED <<pureVars, exportVars>>

\* Lines 234-236: Popen starts Xvfb and its pid is kept in the config.
PopenXvfb ==
    /\ build = "popen"
    /\ xvfb' = "live"
    /\ popens' = popens + 1
    /\ xvfb_pid' = TRUE
    /\ build' = "poll"
    /\ UNCHANGED <<environ, exception, raised, kills, waits>>
    /\ UNCHANGED <<pureVars, exportVars>>

\* Line 234: Popen raises (no Xvfb executable); the hook fails and the
\* application is not built.
PopenFails ==
    /\ build = "popen"
    /\ raised' = "OSError: Xvfb"
    /\ build' = "aborted"
    /\ UNCHANGED <<environ, exception, xvfb, xvfb_pid, popens, kills, waits>>
    /\ UNCHANGED <<pureVars, exportVars>>

\* Lines 238-240: one poll; an Xvfb that has exited is collected by
\* communicate and the hook fails.
PollXvfb ==
    /\ build = "poll"
    /\ IF xvfb = "zombie"
       THEN /\ xvfb' = "reaped"
            /\ raised' = "OSError: Failed to start Xvfb process"
            /\ build' = "aborted"
       ELSE /\ build' = "building"
            /\ UNCHANGED <<xvfb, raised>>
    /\ UNCHANGED <<environ, exception, xvfb_pid, popens, kills, waits>>
    /\ UNCHANGED <<pureVars, exportVars>>

\* Xvfb exits on its own (display number taken, crash).
XvfbDies ==
    /\ xvfb = "live"
    /\ xvfb' = "zombie"
    /\ UNCHANGED <<environ, build, exception, xvfb_pid, raised, popens, kills,
                   waits>>
    /\ UNCHANGED <<pureVars, exportVars>>

\* DISPLAY is set or unset in the process environment.
SetDisplay(v) ==
    /\ build \in {"new", "building"}
    /\ environ.DISPLAY # v
    /\ environ' = [environ EXCEPT !.DISPLAY = v]
    /\ UNCHANGED <<build, exception, xvfb, xvfb_pid, raised, popens, kills, waits>>
    /\ UNCHANGED <<pureVars, exportVars>>

\* The build ends, with or without an exception, and Sphinx emits
\* build-finished.
BuildEnds(e) ==
    /\ build = "building"
    /\ exception' = e
    /\ build' = "copy"
    /\ UNCHANGED <<environ, xvfb, xvfb_pid, raised, popens, kills, waits>>
    /\ UNCHANGED <<pureVars, exportVars>>

\* Lines 247-251: the stylesheet is copied after a build without
\* exception, and not after a failed build.
CopyAsset ==
    /\ build = "copy"
    /\ build' = "decide"
    /\ UNCHANGED <<environ, exception, xvfb, xvfb_pid, raised, popens, kills,
                   waits>>
    /\ UNCHANGED <<pureVars, exportVars>>

\* Line 251: copy_asset raises (the output directory cannot be written);
\* the exception leaves on_build_finished.
CopyAssetFails ==
    /\ build = "copy"
    /\ exception = "None"
    /\ raised' = "copy_asset"
    /\ build' = "finished"
    /\ UNCHANGED <<environ, exception, xvfb, xvfb_pid, popens, kills, waits>>
    /\ UNCHANGED <<pureVars, exportVars>>

\* Line 253: on_build_finished decides anew.
FinishedDecide ==
    /\ build = "decide"
    /\ build' = IF IsHeadlessNow THEN "kill" ELSE "finished"
    /\ UNCHANGED <<environ, exception, xvfb, xvfb_pid, raised, popens, kills,
                   waits>>
    /\ UNCHANGED <<pureVars, exportVars>>

\* Line 254: os.kill(config.xvfb_pid, SIGTERM); the attribute is missing
\* when on_config_inited started nothing.
KillXvfb ==
    /\ build = "kill"
    /\ IF ~xvfb_pid
       THEN /\ raised' = "AttributeError: xvfb_pid"
            /\ build' = "finished"
            /\ UNCHANGED <<xvfb, kills>>
       ELSE /\ kills' = kills + 1
            /\ xvfb' = IF xvfb = "live" THEN "zombie" ELSE xvfb
            /\ build' = "wait"
            /\ UNCHANGED raised
    /\ UNCHANGED <<environ, exception, xvfb_pid, popens, waits>>
    /\ UNCHANGED <<pureVars, exportVars>>

\* Line 255: os.waitid collects the exited Xvfb.
WaitXvfb ==
    /\ build = "wait"
    /\ xvfb = "zombie"
    /\ xvfb' = "reaped"
    /\ waits' = waits + 1
    /\ build' = "finished"
    /\ UNCHANGED <<environ, exception, xvfb_pid, raised, popens, kills>>
    /\ UNCHANGED <<pureVars, exportVars>>

HeadlessPolicies == {"auto", "True", "False"}

DisplayInit ==
    /\ \E h \in HeadlessPolicies :
          call = [ExportCall EXCEPT !.builder.config.drawio_headless = h]
    /\ platform \in {"Linux", "Windows", "Darwin"}
    /\ cwd = <<Root>>
    /\ computed = NotComputed
    /\ ExportIdle
    /\ \E d \in {"", ":0"} :
          /\ environ = [DISPLAY |-> d]
          /\ build = "new"
          /\ exception = "None"
          /\ xvfb = "none"
          /\ xvfb_pid = FALSE
          /\ raised = ""
          /\ popens = 0
          /\ kills = 0
          /\ waits = 0

\* DrawIOBase.run calls drawio_export while the documents are read, that
\* is between config-inited and build-finished.
DuringBuild(step) == build = "building" /\ step

DisplayNext ==
    \/ ConfigInited
    \/ PopenXvfb
    \/ PopenFails
    \/ PollXvfb
    \/ XvfbDies
    \/ \E v \in {"", ":0"} : SetDisplay(v)
    \/ \E e \in {"None", "Exception"} : BuildEnds(e)
    \/ CopyAsset
    \/ CopyAssetFails
    \/ FinishedDecide
    \/ KillXvfb
    \/ WaitXvfb
    \/ \E o \in ExportOptions : DuringBuild(Begin("w1", o))
    \/ DuringBuild(CheckCache("w1"))
    \/ DuringBuild(LaunchFails("w1"))
    \/ DuringBuild(Launch("w1"))
    \/ DuringBuild(ChildOpen("w1"))
    \/ DuringBuild(ChildClose("w1"))
    \/ \E status \in {0, 1} : DuringBuild(Finish("w1", status))

SpecDisplay == DisplayInit /\ [][DisplayNext]_vars

\* C4 as claimed: Xvfb is never started a second time while one is live, at
\* most one is live, and once on_build_finished is over (also when its
\* asset copy raised), an Xvfb that on_config_inited started and left
\* running for the build has been sent SIGTERM and waited for exactly once.
C4_DisplayLifecycle ==
    /\ popens <= 1
    /\ (build = "finished" /\ popens = 1) =>
          /\ kills = 1
          /\ waits = 1
          /\ xvfb = "reaped"

\* C11 as claimed: when on_config_inited started no Xvfb, on_build_finished
\* sends no signal, waits for no process and raises no error from its stop
\* step, under every headless policy and also when the decision at build
\* finish differs from the one at build start.
C11_StopWithoutStartIsNoOp ==
    (popens = 0 /\ build = "finished") =>
        /\ kills = 0
        /\ waits = 0
        /\ raised # "AttributeError: xvfb_pid"

\* C12 as claimed: whenever the Xvfb child exits around the single poll
\* that follows its launch, on_config_inited fails; the build is never
\* running with a recorded session (xvfb_pid set) whose Xvfb is not live.
C12_DeadChildFailsStart ==
    (build = "building" /\ xvfb_pid) => xvfb = "live"

\* C13: is_headless is true under the auto policy exactly when the
\* platform is Linux and DISPLAY is unset or empty, true under the policy
\* True and false under the policy False; when it is false,
\* on_config_inited starts no process and records no pid, and a renderer
\* launched then is given the ambient environment without an override.
C13_HeadlessDecision ==
    /\ [](IsHeadlessNow <=>
            \/ call.builder.config.drawio_headless = "True"
            \/ /\ call.builder.config.drawio_headless = "auto"
               /\ platform = "Linux"
               /\ environ.DISPLAY = "")
    /\ [][(build = "new" /\ build' # "new" /\ ~IsHeadlessNow) =>
            /\ build' = "building"
            /\ popens' = 0
            /\ xvfb' = "none"
            /\ ~xvfb_pid']_vars
    /\ [][(pc["w1"] = "launch" /\ pc'["w1"] # "launch" /\ ~IsHeadlessNow) =>
            new_env'["w1"] = environ]_vars

\* C13 witness: under the auto policy on a platform without Xvfb and with
\* no DISPLAY, the build runs with no process started and a renderer was
\* launched with the ambient environment.
C13_Witness ==
    /\ call.builder.config.drawio_headless = "auto"
    /\ platform = "Windows"
    /\ environ.DISPLAY = ""
    /\ build = "building"
    /\ popens = 0
    /\ xvfb = "none"
    /\ pc["w1"] = "running"
    /\ new_env["w1"] = environ

\* C14 as claimed: every renderer launched during the build is given
\* DISPLAY = ":1" if an Xvfb started by on_config_inited is live at that
\* moment, and the ambient environment unchanged otherwise.
C14_OverrideIffSessionLive ==
    [][(pc["w1"] = "launch" /\ pc'["w1"] = "running") =>
          new_env'["w1"] = IF xvfb = "live"
                           THEN [environ EXCEPT !.DISPLAY = ":1"]
                           ELSE environ]_vars

\* The value that follows --output in an argument vector.
OutputArg(args) ==
    args[(CHOOSE i \in 1..Len(args) : args[i] = "--output") + 1]

\* The artifacts that a step creates or changes.
ChangedFiles ==
    { f \in DOMAIN files' : f \notin DOMAIN files \/ files'[f] # files[f] }

\* C18: no step removes a cache directory or an artifact file; a file is
\* created or changed only by the renderer of a call that missed, at the
\* path that call checked and passed as --output (a stale artifact is
\* overwritten in place); a call that hits changes no artifact.
C18_CacheOnlyGrows ==
    [][/\ dirs \subseteq dirs'
       /\ DOMAIN files \subseteq DOMAIN files'
       /\ \A f \in ChangedFiles :
             \E p \in Procs :
                /\ pc[p] = "running"
                /\ path[p] = f
                /\ OutputArg(DrawioArgsOf(opts[p])) = f
       /\ \A p \in Procs :
             (pc[p] = "check" /\ pc'[p] = "returned") => files' = files]_vars

\* C18 witness: a worker whose earlier call had succeeded called again
\* with the same options, missed, and its renderer has rewritten the one
\* artifact of the cache, which is fresh again.
C18_Witness ==
    \E p \in Procs :
        /\ pc[p] = "returned"
        /\ outcome[p].kind = "rendered"
        /\ prev[p] # -1
        /\ DOMAIN files = {path[p]}
        /\ files[path[p]].complete
        /\ files[path[p]].by = p
        /\ files[path[p]].mtime > src.mtime
        /\ src.mtime > prev[p]

\* C19 as claimed: every call that returned a path, by a hit or after a
\* render, returned an existing artifact whose mtime is strictly greater
\* than the mtime the source had when the call began (for calls that began
\* when the source's last save lay before the current clock tick).
C19_SuccessIsFresh ==
    \A p \in Procs :
        (/\ pc[p] = "returned"
         /\ outcome[p].kind \in {"hit", "rendered"}
         /\ begun[p].settled) =>
            /\ outcome[p].path \in DOMAIN files
            /\ files[outcome[p].path].mtime > begun[p].src

\* C20 as claimed: in every interleaving of concurrent calls, at the
\* moment a call returns by a cache hit, the file it returns is not one
\* that a renderer is still writing.
C20_HitIsComplete ==
    [][\A p \in Procs :
        (pc[p] = "check" /\ pc'[p] = "returned"
         /\ outcome'[p].kind = "hit") =>
            files[outcome'[p].path].complete]_vars

====
